---- MODULE Spec2Model ----
(***************************************************************************)
(* Model of spuppy: FilesConfig validation and path normalisation          *)
(* (config.py), the Sharepoint stages (sputil.py) and the orchestration    *)
(* in Uploader.main (spup.py).                                             *)
(*                                                                         *)
(* A Python str is a sequence of one-character strings, so that split,     *)
(* os.path.join, os.path.abspath, os.path.basename and the regular         *)
(* expression of _verify_out_folder are computed character by character.   *)
(***************************************************************************)
EXTENDS Integers, Sequences, FiniteSets, TLC

----------------------------------------------------------------------------
(* Bounds *)

\* how many times verify() is applied to one FilesConfig in SpecVerify
MaxVerifyCalls == 2
\* how many comma separated entries the -f argument has at most
MaxFiles == 2
\* how long the -o argument is at most in SpecOut
MaxOutLen == 2

----------------------------------------------------------------------------
(* Python values *)

\* None for an optional str (no str holds a multi-character element)
None == <<"<None>">>
\* None for an optional list of str
NoneList == << None >>

\* truth value of an optional str: None and "" are falsy
Truthy(s) == s # None /\ s # <<>>
\* truth value of an optional list: None and [] are falsy
TruthyList(l) == l # NoneList /\ l # <<>>

SLASH == "/"
COMMA == ","
DOT == "."
NL == "\n"

RECURSIVE SplitAcc(_, _, _, _)
SplitAcc(s, sep, i, cur) ==
    IF i > Len(s) THEN <<cur>>
    ELSE IF s[i] = sep THEN <<cur>> \o SplitAcc(s, sep, i + 1, <<>>)
    ELSE SplitAcc(s, sep, i + 1, Append(cur, s[i]))

\* str.split(sep) for a one-character separator
Split(s, sep) == SplitAcc(s, sep, 1, <<>>)

RECURSIVE JoinWith(_, _)
\* sep.join(parts)
JoinWith(parts, sep) ==
    IF parts = <<>> THEN <<>>
    ELSE IF Len(parts) = 1 THEN parts[1]
    ELSE parts[1] \o <<sep>> \o JoinWith(Tail(parts), sep)

StartsWithSlash(s) == Len(s) >= 1 /\ s[1] = SLASH
EndsWithSlash(s) == Len(s) >= 1 /\ s[Len(s)] = SLASH

----------------------------------------------------------------------------
(* os.path (posixpath) *)

\* os.path.join(a, b)
PathJoin(a, b) ==
    IF StartsWithSlash(b) THEN b
    ELSE IF a = <<>> \/ EndsWithSlash(a) THEN a \o b
    ELSE a \o <<SLASH>> \o b

RECURSIVE NormComps(_, _, _)
\* the component loop of posixpath.normpath
NormComps(comps, new, rooted) ==
    IF comps = <<>> THEN new
    ELSE LET c == Head(comps)
             rest == Tail(comps)
         IN IF c = <<>> \/ c = <<DOT>> THEN NormComps(rest, new, rooted)
            ELSE IF c # <<DOT, DOT>>
                    \/ (~rooted /\ new = <<>>)
                    \/ (new # <<>> /\ new[Len(new)] = <<DOT, DOT>>)
                 THEN NormComps(rest, Append(new, c), rooted)
            ELSE IF new # <<>>
                 THEN NormComps(rest, SubSeq(new, 1, Len(new) - 1), rooted)
            ELSE NormComps(rest, new, rooted)

\* number of leading slashes normpath keeps: POSIX keeps exactly two
InitialSlashes(p) ==
    IF ~StartsWithSlash(p) THEN 0
    ELSE IF Len(p) >= 2 /\ p[2] = SLASH /\ ~(Len(p) >= 3 /\ p[3] = SLASH) THEN 2
    ELSE 1

\* os.path.normpath(p)
NormPath(p) ==
    IF p = <<>> THEN <<DOT>>
    ELSE LET n == InitialSlashes(p)
             body == JoinWith(NormComps(Split(p, SLASH), <<>>, n > 0), SLASH)
             pre == IF n = 2 THEN <<SLASH, SLASH>>
                    ELSE IF n = 1 THEN <<SLASH>> ELSE <<>>
             r == pre \o body
         IN IF r = <<>> THEN <<DOT>> ELSE r

\* os.getcwd(): the working directory of the run
Cwd == <<"/", "w">>

\* os.path.abspath(p)
AbsPath(p) == NormPath(IF StartsWithSlash(p) THEN p ELSE PathJoin(Cwd, p))

RECURSIVE LastSlash(_, _)
LastSlash(p, i) == IF i = 0 THEN 0 ELSE IF p[i] = SLASH THEN i ELSE LastSlash(p, i - 1)

\* os.path.basename(p)
BaseName(p) == SubSeq(p, LastSlash(p, Len(p)) + 1, Len(p))

----------------------------------------------------------------------------
(* The filesystem: a function from nodes (sequences of names below the     *)
(* root) to "file", "dir" or "none".  The root and the working directory   *)
(* are directories.                                                        *)

W == <<"w">>
D == <<"d">>
X == <<"x">>
Y == <<"y">>
\* a directory whose name ends in a newline
BNL == <<"b", "\n">>

Nodes == { <<W, D>>, <<W, X>>, <<W, Y>>, <<W, D, X>>, <<W, D, Y>>, <<W, BNL>> }

Kinds == {"none", "file", "dir"}

KindOf(f, node) ==
    IF node = <<>> \/ node = <<W>> THEN "dir"
    ELSE IF node \in DOMAIN f THEN f[node]
    ELSE "none"

Parent(node) == SubSeq(node, 1, Len(node) - 1)

\* every entry lives in a directory
WellFormed(f) == \A n \in Nodes : f[n] # "none" => KindOf(f, Parent(n)) = "dir"

FileSystems == { f \in [Nodes -> Kinds] : WellFormed(f) /\ f[<<W, BNL>>] \in {"dir", "none"} }

\* the result of a failed lookup: no node has this name
ENOENT == << <<"<ENOENT>">> >>

RECURSIVE Walk(_, _, _)
\* path resolution: every component is looked up in a directory
Walk(f, cur, comps) ==
    IF comps = <<>> THEN cur
    ELSE IF KindOf(f, cur) # "dir" THEN ENOENT
    ELSE LET c == Head(comps)
         IN IF c = <<>> \/ c = <<DOT>> THEN Walk(f, cur, Tail(comps))
            ELSE IF c = <<DOT, DOT>>
                 THEN Walk(f, IF cur = <<>> THEN cur ELSE Parent(cur), Tail(comps))
            ELSE Walk(f, Append(cur, c), Tail(comps))

\* what os.stat(p) finds: "none" when it raises
Stat(f, p) ==
    IF p = <<>> THEN "none"
    ELSE LET node == Walk(f, IF StartsWithSlash(p) THEN <<>> ELSE <<W>>, Split(p, SLASH))
             k == KindOf(f, node)
         IN IF EndsWithSlash(p) /\ k # "dir" THEN "none" ELSE k

\* os.path.exists, os.path.isfile, os.path.isdir
Exists(f, p) == Stat(f, p) # "none"
IsFile(f, p) == Stat(f, p) = "file"
IsDir(f, p) == Stat(f, p) = "dir"

\* the names os.listdir(p) returns, in some order
ListDirNames(f, p) ==
    LET node == Walk(f, IF StartsWithSlash(p) THEN <<>> ELSE <<W>>, Split(p, SLASH))
    IN { n[Len(n)] : n \in { m \in Nodes : Parent(m) = node /\ f[m] # "none" } }

\* the orders in which a directory listing can come
Listings(S) ==
    { l \in [1..Cardinality(S) -> S] : \A i, j \in 1..Cardinality(S) : l[i] = l[j] => i = j }

----------------------------------------------------------------------------
(* config.py: FilesConfig *)

\* FilesConfig.__init__
FilesConfig(path, files, out_folder) ==
    [ path |-> path,
      files |-> IF Truthy(files) THEN Split(files, COMMA) ELSE NoneList,
      out_folder |-> IF Truthy(out_folder) THEN out_folder
                     ELSE IF Truthy(path) THEN BaseName(AbsPath(path))
                     ELSE None ]

\* an error message: the rule that emits it, its fixed text and the values
\* interpolated into it
Err(rule, text, a, b) == [rule |-> rule, text |-> text, a |-> a, b |-> b]

\* FilesConfig._verify_path
_verify_path(c, f) ==
    IF Truthy(c.path)
    THEN IF ~Exists(f, c.path) THEN << Err(2, "does not exist", c.path, None) >>
         ELSE IF ~IsDir(f, c.path) THEN << Err(2, "is not a directory", c.path, None) >>
         ELSE <<>>
    ELSE <<>>

\* the body of the loop of FilesConfig._verify_files for one entry
FileErrors(c, f, e) ==
    IF ~Exists(f, e)
    THEN IF Truthy(c.path) /\ ~Exists(f, PathJoin(c.path, e))
         THEN << Err(3, "does not exist on path", e, c.path) >>
         ELSE IF Truthy(c.path) /\ ~IsFile(f, PathJoin(c.path, e))
         THEN << Err(3, "is not a file", e, None) >>
         ELSE IF ~Truthy(c.path)
         THEN << Err(3, "does not exist", e, None) >>
         ELSE <<>>
    ELSE IF ~IsFile(f, e) THEN << Err(3, "is not a file", e, None) >>
    ELSE <<>>

RECURSIVE VerifyFilesLoop(_, _, _)
VerifyFilesLoop(c, f, es) ==
    IF es = <<>> THEN <<>>
    ELSE FileErrors(c, f, Head(es)) \o VerifyFilesLoop(c, f, Tail(es))

\* FilesConfig._verify_files
_verify_files(c, f) ==
    IF ~TruthyList(c.files) THEN <<>>
    ELSE VerifyFilesLoop(c, f, c.files)

Lower == {"a","b","c","d","e","f","g","h","i","j","k","l","m",
          "n","o","p","q","r","s","t","u","v","w","x","y","z"}
Upper == {"A","B","C","D","E","F","G","H","I","J","K","L","M",
          "N","O","P","Q","R","S","T","U","V","W","X","Y","Z"}
Digit == {"0","1","2","3","4","5","6","7","8","9"}
\* the character class [a-zA-Z0-9._-]
AllowedChars == Lower \cup Upper \cup Digit \cup {".", "_", "-"}

\* allowed_path.match(s) for the pattern ^[a-zA-Z0-9._-]+$ : Python's $ matches
\* at the end of the string and also just before a newline that ends it
AllowedPathMatch(s) ==
    \E n \in 1..Len(s) :
        /\ \A i \in 1..n : s[i] \in AllowedChars
        /\ \/ n = Len(s)
           \/ n = Len(s) - 1 /\ s[Len(s)] = NL

\* FilesConfig._verify_out_folder
_verify_out_folder(c) ==
    IF ~Truthy(c.out_folder) THEN <<>>
    ELSE IF ~AllowedPathMatch(c.out_folder)
         THEN << Err(4, "contains illegal characters: only a-zA-Z0-9._- are allowed",
                     c.out_folder, None) >>
         ELSE <<>>

\* the base directory FilesConfig._fix_paths resolves against
LocalPath(c) == IF Truthy(c.path) THEN AbsPath(c.path) ELSE AbsPath(<<DOT>>)

RECURSIVE JoinAll(_, _)
JoinAll(base, es) ==
    IF es = <<>> THEN <<>>
    ELSE <<PathJoin(base, Head(es))>> \o JoinAll(base, Tail(es))

RECURSIVE RegularFiles(_, _)
\* the listing loop of _fix_paths: keep the entries that are regular files
RegularFiles(f, paths) ==
    IF paths = <<>> THEN <<>>
    ELSE (IF IsFile(f, Head(paths)) THEN <<Head(paths)>> ELSE <<>>)
         \o RegularFiles(f, Tail(paths))

\* FilesConfig._fix_paths; listing is what os.listdir(local_path) returns
_fix_paths(c, f, listing) ==
    LET local_path == LocalPath(c)
    IN [ c EXCEPT !.files =
           IF TruthyList(c.files) THEN JoinAll(local_path, c.files)
           ELSE RegularFiles(f, JoinAll(local_path, listing)) ]

\* a verify() that stops at the first rule that reports an error
VerifyErrorsShortCircuit(c, f) ==
    IF ~Truthy(c.path) /\ ~TruthyList(c.files)
    THEN << Err(1, "at least one of -i or -f must be present", None, None) >>
    ELSE IF _verify_path(c, f) # <<>> THEN _verify_path(c, f)
    ELSE IF _verify_files(c, f) # <<>> THEN _verify_files(c, f)
    ELSE _verify_out_folder(c)

\* the error list FilesConfig.verify collects, in order
VerifyErrors(c, f) ==
    LET ret == (IF ~Truthy(c.path) /\ ~TruthyList(c.files)
                THEN << Err(1, "at least one of -i or -f must be present", None, None) >>
                ELSE <<>>)
               \o _verify_path(c, f)
               \o _verify_files(c, f)
               \o _verify_out_folder(c)
    IN SelectSeq(ret, LAMBDA x : x.text # "")

\* whether verify() goes on to _fix_paths
VerifyPassed(ret) == ret = <<>>

\* a verify() that normalises the paths whatever the errors
VerifyConfAlwaysFix(c, f, listing) == _fix_paths(c, f, listing)

\* FilesConfig.verify: the FilesConfig after the call
VerifyConf(c, f, listing) ==
    IF VerifyPassed(VerifyErrors(c, f)) THEN _fix_paths(c, f, listing) ELSE c

----------------------------------------------------------------------------
(* config.py: Logger.  A log entry is the level and the message; each call *)
(* prints a console line and writes the entry to the log file.             *)

Msg(text) == Err(0, text, None, None)

LoggerDebug(l, msg) == Append(l, [level |-> "debug", msg |-> msg])
LoggerInfo(l, msg) == Append(l, [level |-> "info", msg |-> msg])
LoggerError(l, msg) == Append(l, [level |-> "error", msg |-> msg])
\* a Logger.exception that writes nothing
LoggerExceptionSilent(l, msg) == l

LoggerException(l, msg) == Append(l, [level |-> "exception", msg |-> msg])
LoggerSuccess(l, msg) == Append(l, [level |-> "success", msg |-> msg])

RECURSIVE LogErrors(_, _)
\* the loop over verify's errors in Uploader.main
LogErrors(l, errs) ==
    IF errs = <<>> THEN l
    ELSE LogErrors(LoggerError(l, Head(errs)), Tail(errs))

----------------------------------------------------------------------------
(* State *)

VARIABLES
    fs,         \* the filesystem
    argPath,    \* params.directory
    argFiles,   \* params.files
    argOut,     \* params.out
    debug,      \* params.debug
    fconf,      \* the FilesConfig
    ret,        \* what the last verify() returned
    nverify,    \* how many times verify() has returned
    pc,         \* where the run is
    log,        \* the Logger calls made so far
    calls,      \* the remote operations invoked so far, with their outcomes
    k,          \* position of upload_files in fconf.files
    escaped,    \* an exception left Uploader.main
    failed      \* the stage at which the run failed, "none" if it has not

vars == <<fs, argPath, argFiles, argOut, debug, fconf, ret, nverify, pc, log,
          calls, k, escaped, failed>>

\* no FilesConfig has been constructed yet
NoConf == [path |-> None, files |-> NoneList, out_folder |-> None]

\* how a remote request ends: it succeeds, raises ClientRequestException, or
\* raises another exception
Outcomes == {"ok", "cre", "exc"}

Call(op, pos, res) == [op |-> op, pos |-> pos, res |-> res]

----------------------------------------------------------------------------
(* The command lines and filesystems explored *)

\* -i: absent, empty, a relative and an absolute directory, a name that may be
\* a regular file, a directory whose name ends in a newline
PathArgs == { None, <<>>, D, <<"/", "w", "/", "d">>, X, BNL }

\* the entries of -f: "", x, y
Entries == { <<>>, X, Y }

\* -f: absent, or up to MaxFiles entries joined by commas (a single empty
\* entry is the empty string)
FilesArgs ==
    {None} \cup { JoinWith(l, COMMA) : l \in UNION { [1..n -> Entries] : n \in 1..MaxFiles } }

\* -o in SpecVerify and SpecMain
OutArgs == { None, <<"o">>, <<"a", " ", "b">> }

\* the characters of -o in SpecOut: one allowed letter, one allowed symbol, a
\* space, a path separator, a newline, a symbol outside the class
OutChars == { "o", "-", " ", "/", "\n", "$" }

\* -o in SpecOut: absent, or any string of at most MaxOutLen characters
OutStrings == {None} \cup UNION { [1..n -> OutChars] : n \in 0..MaxOutLen }

----------------------------------------------------------------------------
(* SpecVerify: a FilesConfig is constructed and verify() is applied to it, *)
(* up to MaxVerifyCalls times, on an unchanging filesystem.                *)

InitCommon ==
    /\ fconf = NoConf
    /\ ret = <<>>
    /\ nverify = 0
    /\ log = <<>>
    /\ calls = <<>>
    /\ k = 0
    /\ escaped = FALSE
    /\ failed = "none"

InitVerify ==
    /\ fs \in { f \in FileSystems : f[<<W, BNL>>] = "none" }
    /\ argPath \in PathArgs \ {BNL}
    /\ argFiles \in FilesArgs
    /\ argOut \in OutArgs
    /\ debug = FALSE
    /\ pc = "new"
    /\ InitCommon

\* fconf = FilesConfig(path, files, out)
Construct ==
    /\ pc = "new"
    /\ fconf' = FilesConfig(argPath, argFiles, argOut)
    /\ pc' = "built"
    /\ UNCHANGED <<fs, argPath, argFiles, argOut, debug, ret, nverify, log, calls,
                   k, escaped, failed>>

\* fconf.verify()
Verify ==
    /\ pc = "built"
    /\ nverify < MaxVerifyCalls
    /\ \E listing \in Listings(ListDirNames(fs, LocalPath(fconf))) :
          fconf' = VerifyConf(fconf, fs, listing)
    /\ ret' = VerifyErrors(fconf, fs)
    /\ nverify' = nverify + 1
    /\ UNCHANGED <<fs, argPath, argFiles, argOut, debug, pc, log, calls, k, escaped,
                   failed>>

NextVerify == Construct \/ Verify

SpecVerify == InitVerify /\ [][NextVerify]_vars

\* SpecOut: the same operations, over every short -o string and every -i
InitOut ==
    /\ fs \in { f \in FileSystems : f[<<W, D>>] = "dir" /\ f[<<W, X>>] = "file"
                                    /\ f[<<W, D, X>>] = "none" /\ f[<<W, D, Y>>] = "none"
                                    /\ f[<<W, Y>>] = "none" }
    /\ argPath \in PathArgs
    /\ argFiles \in { None, X }
    /\ argOut \in OutStrings
    /\ debug = FALSE
    /\ pc = "new"
    /\ InitCommon

SpecOut == InitOut /\ [][NextVerify]_vars

----------------------------------------------------------------------------
(* Properties of FilesConfig.verify *)

\* this step is a call of verify()
VerifyStep == nverify' = nverify + 1

\* the errors of one rule, in order
OfRule(errs, r) == SelectSeq(errs, LAMBDA e : e.rule = r)

RECURSIVE Subjects(_)
Subjects(errs) == IF errs = <<>> THEN <<>> ELSE <<Head(errs).a>> \o Subjects(Tail(errs))

\* C4: after verify() returns no error, every entry of files is an existing
\* regular file.
C4_FilesAreRegular ==
    (nverify >= 1 /\ ret = <<>>) =>
        \A i \in 1..Len(fconf.files) : IsFile(fs, fconf.files[i])

\* C5: a second verify() on a successfully validated request returns no error
\* and leaves path, files and out_folder as they were.
C5_VerifyIdempotent ==
    [][(VerifyStep /\ nverify >= 1 /\ ret = <<>>) => (ret' = <<>> /\ fconf' = fconf)]_vars

\* C6: a verify() that returns errors changes none of path, files, out_folder;
\* with neither -i nor -f it always returns errors and files stays unset.
C6_NoMutationOnError ==
    [][VerifyStep =>
         /\ (ret' # <<>> => fconf' = fconf)
         /\ (~Truthy(argPath) /\ ~Truthy(argFiles)
               => ret' # <<>> /\ fconf.files = NoneList /\ fconf'.files = NoneList)]_vars

\* C6 witness: a verify() that reported errors on a request with a file list
\* and a directory, which _fix_paths would have rewritten
C6_Witness ==
    /\ nverify = 1
    /\ ret # <<>>
    /\ TruthyList(fconf.files)
    /\ Truthy(fconf.path)
    /\ fconf = FilesConfig(argPath, argFiles, argOut)
    /\ _fix_paths(fconf, fs, <<>>) # fconf

\* the name has a character outside letters, digits, '.', '_', '-'
HasIllegalChar(s) == \E i \in 1..Len(s) : s[i] \notin AllowedChars

\* C7: verify() reports the illegal-character error exactly for the output
\* folder names that contain a character outside letters, digits, '.', '_', '-'.
C7_OutFolderCharset ==
    (nverify >= 1 /\ Truthy(fconf.out_folder)) =>
        ((OfRule(ret, 4) # <<>>) <=> HasIllegalChar(fconf.out_folder))

\* an entry for which rule 3 must report: it is not a regular file as given
\* and, when it does not exist as given, is not a regular file in the directory
EntryBad(c, f, e) ==
    IF Exists(f, e) THEN ~IsFile(f, e)
    ELSE ~Truthy(c.path) \/ ~IsFile(f, PathJoin(c.path, e))

\* the errors of each rule that the request c calls for
ExpectedErrors(c, f, errs) ==
    /\ \A i, j \in 1..Len(errs) : i < j => errs[i].rule <= errs[j].rule
    /\ \A i \in 1..Len(errs) : errs[i].rule \in 1..4
    /\ Len(OfRule(errs, 1)) = IF ~Truthy(c.path) /\ ~TruthyList(c.files) THEN 1 ELSE 0
    /\ Len(OfRule(errs, 2)) = IF Truthy(c.path) /\ ~IsDir(f, c.path) THEN 1 ELSE 0
    /\ Subjects(OfRule(errs, 3)) =
          IF TruthyList(c.files) THEN SelectSeq(c.files, LAMBDA e : EntryBad(c, f, e))
          ELSE <<>>
    /\ Len(OfRule(errs, 4)) =
          IF Truthy(c.out_folder) /\ ~AllowedPathMatch(c.out_folder) THEN 1 ELSE 0

\* C10: verify() returns, in rule order, the error of every rule that fails:
\* the 'at least one' error, the directory error, one error for each bad entry
\* in file-list order, the output-folder error; no rule hides another.
C10_AllRulesReported ==
    [][VerifyStep => ExpectedErrors(fconf, fs, ret')]_vars

\* C10 witness: the directory, one of two entries and the output folder fail
C10_Witness ==
    /\ nverify = 1
    /\ Len(OfRule(ret, 2)) = 1
    /\ Len(OfRule(ret, 3)) = 1
    /\ Len(OfRule(ret, 4)) = 1
    /\ Len(fconf.files) = 2
    /\ fconf.files # NoneList

----------------------------------------------------------------------------
(* SpecMain: one run of Uploader.main (spup.py) over the Sharepoint stages *)
(* (sputil.py).  Every remote request ends in one of Outcomes.             *)

InitMain ==
    /\ fs \in { f \in FileSystems : f[<<W, BNL>>] = "none" /\ f[<<W, Y>>] = "none" }
    /\ argPath \in { None, D, X }
    /\ argFiles \in {None} \cup { JoinWith(l, COMMA) :
                          l \in UNION { [1..n -> {X, Y}] : n \in 1..MaxFiles } }
    /\ argOut \in OutArgs
    /\ debug \in BOOLEAN
    /\ pc = "start"
    /\ InitCommon

\* a main that goes on to the remote stages whatever verify() returned
MainAfterVerifyIgnoringErrors(v) == "get_token"

\* main after verify(): errors end the run
MainAfterVerify(v) == IF v # <<>> THEN "done" ELSE "get_token"

\* main after sp.get_token(): an exception ends the run
MainAfterGetToken(res) == IF res = "ok" THEN "verify_url" ELSE "done"

\* a main that goes on after verify_url() returned False
MainAfterVerifyUrlIgnoringFalse(res, c) ==
    IF res = "exc" THEN "done"
    ELSE IF Truthy(c.out_folder) THEN "add_folder"
    ELSE "upload_files"

\* main after sp.verify_url(): False or an exception ends the run, add_folder
\* is next only when out_folder is set
MainAfterVerifyUrl(res, c) ==
    IF res # "ok" THEN "done"
    ELSE IF Truthy(c.out_folder) THEN "add_folder"
    ELSE "upload_files"

\* a main that asks for the folder again when the request failed
MainAfterAddFolderRetrying(res) == IF res = "ok" THEN "upload_files" ELSE "add_folder"

\* main after sp.add_folder(): False or an exception ends the run
MainAfterAddFolder(res) == IF res = "ok" THEN "upload_files" ELSE "done"

\* an upload loop that goes on to the next file after a failed request
UploadAfterFileContinuing(res) == IF res = "exc" THEN "done" ELSE "upload_loop"

\* the loop of upload_files after one file: a failed request ends it
UploadAfterFile(res) == IF res = "ok" THEN "upload_loop" ELSE "done"

\* what verify_url, add_folder and upload_files log after execute_query:
\* success, or the server's message on ClientRequestException; any other
\* exception reaches main's except clause
RequestLog(l, res, what) ==
    IF res = "ok" THEN LoggerSuccess(l, Msg(what))
    ELSE IF res = "cre" THEN LoggerError(l, Msg("server error"))
    ELSE LoggerException(l, Msg("exception"))

\* SharepointConfig(subsite) and RuntimeConfig(debug) read config.yaml; a
\* missing file or key raises before main's try block
LoadConfig ==
    /\ pc = "start"
    /\ \E ok \in BOOLEAN :
          IF ok THEN /\ pc' = "validate"
                     /\ UNCHANGED <<escaped, failed>>
          ELSE /\ pc' = "done"
               /\ escaped' = TRUE
               /\ failed' = "config"
    /\ UNCHANGED <<fs, argPath, argFiles, argOut, debug, fconf, ret, nverify, log,
                   calls, k>>

\* fconf = FilesConfig(...); verify = fconf.verify(); the errors are logged
Validate ==
    /\ pc = "validate"
    /\ LET c0 == FilesConfig(argPath, argFiles, argOut)
           errs == VerifyErrors(c0, fs)
           l1 == IF debug
                 THEN LoggerDebug(LoggerDebug(LoggerDebug(log, Msg("spconf")),
                                              Msg("runtime")), Msg("fconf"))
                 ELSE log
       IN /\ \E listing \in Listings(ListDirNames(fs, LocalPath(c0))) :
                fconf' = VerifyConf(c0, fs, listing)
          /\ ret' = errs
          /\ pc' = MainAfterVerify(errs)
          /\ IF errs # <<>>
             THEN /\ log' = LogErrors(l1, errs)
                  /\ failed' = "validate"
             ELSE /\ log' = IF debug THEN LoggerDebug(l1, Msg("fconf")) ELSE l1
                  /\ UNCHANGED failed
    /\ nverify' = nverify + 1
    /\ UNCHANGED <<fs, argPath, argFiles, argOut, debug, calls, k, escaped>>

\* sp = Sharepoint(...); sp.get_token()
GetToken ==
    /\ pc = "get_token"
    /\ \E res \in Outcomes :
          LET l1 == IF debug THEN LoggerDebug(log, Msg("url")) ELSE log
          IN /\ calls' = Append(calls, Call("get_token", 0, res))
             /\ pc' = MainAfterGetToken(res)
             /\ IF res = "ok"
                THEN /\ log' = IF debug THEN LoggerDebug(l1, Msg("sp")) ELSE l1
                     /\ UNCHANGED failed
                ELSE /\ log' = LoggerException(l1, Msg("exception"))
                     /\ failed' = "get_token"
    /\ UNCHANGED <<fs, argPath, argFiles, argOut, debug, fconf, ret, nverify, k,
                   escaped>>

\* sp.verify_url()
VerifyUrl ==
    /\ pc = "verify_url"
    /\ \E res \in Outcomes :
          /\ calls' = Append(calls, Call("verify_url", 0, res))
          /\ log' = RequestLog(log, res, "site")
          /\ pc' = MainAfterVerifyUrl(res, fconf)
          /\ failed' = IF res = "ok" THEN failed ELSE "verify_url"
    /\ UNCHANGED <<fs, argPath, argFiles, argOut, debug, fconf, ret, nverify, k,
                   escaped>>

\* sp.add_folder()
AddFolder ==
    /\ pc = "add_folder"
    /\ \E res \in Outcomes :
          /\ calls' = Append(calls, Call("add_folder", 0, res))
          /\ log' = RequestLog(log, res, "added folder")
          /\ pc' = MainAfterAddFolder(res)
          /\ failed' = IF res = "ok" THEN failed ELSE "add_folder"
    /\ UNCHANGED <<fs, argPath, argFiles, argOut, debug, fconf, ret, nverify, k,
                   escaped>>

\* sp.upload_files() up to its loop
UploadFilesEnter ==
    /\ pc = "upload_files"
    /\ calls' = Append(calls, Call("upload_files", 0, "called"))
    /\ k' = 1
    /\ pc' = "upload_loop"
    /\ UNCHANGED <<fs, argPath, argFiles, argOut, debug, fconf, ret, nverify, log,
                   escaped, failed>>

\* one iteration of the loop of upload_files: getsize raises when the file
\* is not there, else the upload session is created and the query executed
UploadFile ==
    /\ pc = "upload_loop"
    /\ k <= Len(fconf.files)
    /\ LET l1 == LoggerInfo(log, Msg("file upload"))
       IN IF ~Exists(fs, fconf.files[k])
          THEN /\ log' = LoggerException(l1, Msg("exception"))
               /\ pc' = "done"
               /\ failed' = "upload_files"
               /\ UNCHANGED <<calls, k>>
          ELSE \E res \in Outcomes :
                  /\ calls' = Append(calls, Call("create_upload_session", k, res))
                  /\ log' = RequestLog(l1, res, "uploaded")
                  /\ pc' = UploadAfterFile(res)
                  /\ k' = IF res = "ok" THEN k + 1 ELSE k
                  /\ failed' = IF res = "ok" THEN failed ELSE "upload_files"
    /\ UNCHANGED <<fs, argPath, argFiles, argOut, debug, fconf, ret, nverify, escaped>>

\* the loop of upload_files is over: return True
UploadReturn ==
    /\ pc = "upload_loop"
    /\ k > Len(fconf.files)
    /\ pc' = "done"
    /\ UNCHANGED <<fs, argPath, argFiles, argOut, debug, fconf, ret, nverify, log,
                   calls, k, escaped, failed>>

NextMain ==
    \/ LoadConfig
    \/ Validate
    \/ GetToken
    \/ VerifyUrl
    \/ AddFolder
    \/ UploadFilesEnter
    \/ UploadFile
    \/ UploadReturn

SpecMain == InitMain /\ [][NextMain]_vars

----------------------------------------------------------------------------
(* Properties of Uploader.main *)

RECURSIVE Messages(_)
Messages(l) == IF l = <<>> THEN <<>> ELSE <<Head(l).msg>> \o Messages(Tail(l))

\* the log entries of one level
OfLevel(l, level) == SelectSeq(l, LAMBDA e : e.level = level)

\* a failure log call was made
FailureLogged == \E i \in 1..Len(log) : log[i].level \in {"error", "exception"}

\* C1: when verify() returns errors, main logs each of them with Logger.error
\* and ends without invoking any remote operation.
C1_ValidationErrorsStopRun ==
    (nverify >= 1 /\ ret # <<>>) =>
        /\ Messages(OfLevel(log, "error")) = ret
        /\ calls = <<>>
        /\ pc = "done"

\* C1 witness: a finished run whose validation reported several errors
C1_Witness ==
    /\ pc = "done"
    /\ Len(ret) >= 2
    /\ Len(OfLevel(log, "error")) >= 2

\* the remote operations of a run that passes validation, in order
ExpectedCalls(c) ==
    << [op |-> "get_token", pos |-> 0], [op |-> "verify_url", pos |-> 0] >>
    \o (IF Truthy(c.out_folder) THEN << [op |-> "add_folder", pos |-> 0] >> ELSE <<>>)
    \o << [op |-> "upload_files", pos |-> 0] >>
    \o [i \in 1..Len(c.files) |-> [op |-> "create_upload_session", pos |-> i]]

Failing(call) == call.res \in {"cre", "exc"}

\* C2: the remote stages are invoked in the order get_token, verify_url,
\* add_folder (only with an out_folder), upload_files; a stage that fails is
\* the last one invoked; a failed site query is logged as an error and no
\* folder is created and no file uploaded.
C2_StagesInOrder ==
    /\ Len(calls) <= Len(ExpectedCalls(fconf))
    /\ \A i \in 1..Len(calls) :
          /\ calls[i].op = ExpectedCalls(fconf)[i].op
          /\ calls[i].pos = ExpectedCalls(fconf)[i].pos
          /\ Failing(calls[i]) => (i = Len(calls) /\ pc = "done")
    /\ \A i \in 1..Len(calls) :
          (calls[i].op = "verify_url" /\ calls[i].res = "cre")
             => /\ log[Len(log)].level = "error"
                /\ \A j \in 1..Len(calls) :
                      calls[j].op \notin {"add_folder", "upload_files",
                                          "create_upload_session"}

\* C2 witness: the site query failed in a run that had a folder to create
C2_Witness ==
    /\ pc = "done"
    /\ Truthy(fconf.out_folder)
    /\ Len(calls) = 2
    /\ calls[2] = Call("verify_url", 0, "cre")

\* the upload sessions created so far
Uploads == SelectSeq(calls, LAMBDA e : e.op = "create_upload_session")

\* C3: upload_files takes the files one at a time in list order; the first
\* failed upload is logged and ends the loop, so the files attempted are a
\* prefix of the list and the files uploaded are the prefix before the failure.
C3_UploadStopsAtFirstFailure ==
    /\ Len(Uploads) <= Len(fconf.files)
    /\ \A i \in 1..Len(Uploads) :
          /\ Uploads[i].pos = i
          /\ Failing(Uploads[i]) => (i = Len(Uploads) /\ pc = "done" /\ k = i)
          /\ Uploads[i].res = "cre" => log[Len(log)].level = "error"
    /\ pc = "upload_loop" =>
          (k = Len(Uploads) + 1 /\ \A i \in 1..Len(Uploads) : Uploads[i].res = "ok")

\* C3 witness: the first of two files failed and the second was not attempted
C3_Witness ==
    /\ pc = "done"
    /\ fconf.files # NoneList
    /\ Len(fconf.files) = 2
    /\ Len(Uploads) = 1
    /\ Uploads[1].res = "cre"

\* C8: every failing run, whichever stage fails, makes a failure log call
\* before it ends, and no exception leaves main.
C8_EveryFailureLogged ==
    (pc = "done" /\ failed # "none") => (FailureLogged /\ ~escaped)

\* C8 as amended: a run that fails at validation, authentication, site
\* verification, folder creation or an upload makes a failure log call and no
\* exception leaves main; a failed configuration load raises out of main.
C8_FailuresInsideTryLogged ==
    /\ (pc = "done" /\ failed \notin {"none", "config"}) => (FailureLogged /\ ~escaped)
    /\ failed = "config" => (escaped /\ pc = "done" /\ calls = <<>>)

\* C8 witness: a run whose authentication raised
C8_Witness ==
    /\ pc = "done"
    /\ failed = "get_token"
    /\ calls = << Call("get_token", 0, "exc") >>

\* C9: no remote operation is attempted twice: one token request, one site
\* query, one folder creation, one upload session per position of the file
\* list, and nothing after a failed request is the same request again.
C9_NoRetry ==
    \A i, j \in 1..Len(calls) :
        (calls[i].op = calls[j].op /\ calls[i].pos = calls[j].pos) => i = j

\* C9 witness: a folder creation that failed, in a finished run
C9_Witness ==
    /\ pc = "done"
    /\ Len(calls) = 3
    /\ calls[3].op = "add_folder"
    /\ Failing(calls[3])

====
